---- MODULE Spec2Model ----
(***************************************************************************)
(* L3GD20 gyroscope driver (src/src/l3gd20.rs) on top of the non-blocking  *)
(* SPI primitive (src/src/spi.rs), against a register-file device that is  *)
(* framed by the chip-select line.                                         *)
(***************************************************************************)
EXTENDS Integers, Sequences, FiniteSets, TLC

VARIABLES
    cs,          \* level of GPIOE pin 3, the device's chip-select: "high" | "low"
    configured,  \* the pin has been made an output by init
    dev,         \* the device: register file, framing mode, address pointer
    tx,          \* last byte written to the SPI data register
    rx,          \* byte waiting in the SPI data register (shifted in)
    pc,          \* "idle" | "send" | "recv" | "halt"
    op,          \* the driver operation in progress or last finished
    step,        \* the step of init in progress
    cfg,         \* the Config of the init call
    txn,         \* the register transaction in progress or last finished
    sent,        \* bytes sent in the transaction, in order
    nrecv,       \* successful receives in the transaction
    result,      \* what the last finished operation returned
    ret,         \* the value inside Ok
    fault,       \* bus fault produced by an attempt of the current operation
    faults,      \* number of bus faults the hardware has raised
    calls,       \* number of driver operations called
    budget,      \* number of driver operations the run may call
    cfgs,        \* the Configs the application passes to init
    rwArgs,      \* the (register, payload) pairs a protocol test passes to write/read
    spun,        \* an attempt of the current operation returned WouldBlock
    wlog,        \* begin/end events of the write transactions of the init call
    idByte,      \* the byte the identity read of the init call returned
    lastSr,      \* status register snapshot of the last direct Spi attempt
    lastOut,     \* its outcome
    lastKind,    \* "send" | "read" | "none"
    prev,        \* the direct write or read that finished just before this one
    recvd,       \* bytes received in the transaction, in order
    lastDr,      \* what the last direct Spi attempt did with the data register
    spi,         \* SPI1 control registers CR1 and CR2
    app,         \* the application: position of init, EXTI1 lines, running context
    saved        \* the driver call the interrupt handler preempted

vars == <<cs, configured, dev, tx, rx, pc, op, step, cfg, txn, sent, nrecv,
          result, ret, fault, faults, calls, budget, cfgs, rwArgs, spun, wlog, idByte,
          lastSr, lastOut, lastKind, prev, recvd, lastDr, spi, app, saved>>

-----------------------------------------------------------------------------
(* Program constants                                                       *)

MS == 64
SENSOR_ID == 212
JUNK_DATA == 0
ENABLE_SENSOR == 15
ENABLE_DRDY == 8
READ == 128
WRITE == 0

WHO_AM_I == 15
CTRL_REG1 == 32
CTRL_REG3 == 34
CTRL_REG4 == 35
OUT_TEMP == 38
STATUS_REG == 39
OUT_X_L == 40

Registers == {WHO_AM_I, CTRL_REG1, CTRL_REG3, CTRL_REG4, OUT_TEMP, STATUS_REG, OUT_X_L}

ODRs == {0, 64, 128, 192}
CutOffs == {0, 16, 32, 48}
Scales == {0, 16, 48}
Configs == [odr : ODRs, cut_off : CutOffs, interrupt : BOOLEAN, scale : Scales]
DefaultConfig == [odr |-> 128, cut_off |-> 32, interrupt |-> TRUE, scale |-> 48]

Faults == {"Overrun", "ModeFault", "Crc"}

-----------------------------------------------------------------------------
(* Bounds                                                                  *)

\* bus faults the hardware raises in one run
MaxFaults == 2
\* driver operations called in one run
MaxCalls == 3
\* longest payload / buffer of a direct write or read
MaxLen == 2

-----------------------------------------------------------------------------
(* u8 arithmetic                                                           *)

RECURSIVE BitOr(_, _)
BitOr(a, b) ==
    IF a = 0 THEN b
    ELSE IF b = 0 THEN a
    ELSE (IF a % 2 = 1 \/ b % 2 = 1 THEN 1 ELSE 0) + 2 * BitOr(a \div 2, b \div 2)

RECURSIVE BitAnd(_, _)
BitAnd(a, b) ==
    IF a = 0 \/ b = 0 THEN 0
    ELSE (IF a % 2 = 1 /\ b % 2 = 1 THEN 1 ELSE 0) + 2 * BitAnd(a \div 2, b \div 2)

-----------------------------------------------------------------------------
(* spi.rs: one attempt                                                     *)

StatusRegs == [ovr : BOOLEAN, modf : BOOLEAN, crcerr : BOOLEAN, rxne : BOOLEAN, txe : BOOLEAN]

SpiRead(sr) ==
    IF sr.ovr THEN "Overrun"
    ELSE IF sr.modf THEN "ModeFault"
    ELSE IF sr.crcerr THEN "Crc"
    ELSE IF sr.rxne THEN "Ready"
    ELSE "WouldBlock"

SpiSendReadyFirst(sr) ==
    IF sr.txe THEN "Ready"
    ELSE IF sr.ovr THEN "Overrun"
    ELSE IF sr.modf THEN "ModeFault"
    ELSE IF sr.crcerr THEN "Crc"
    ELSE "WouldBlock"

SpiSend(sr) ==
    IF sr.ovr THEN "Overrun"
    ELSE IF sr.modf THEN "ModeFault"
    ELSE IF sr.crcerr THEN "Crc"
    ELSE IF sr.txe THEN "Ready"
    ELSE "WouldBlock"

-----------------------------------------------------------------------------
(* spi.rs: Spi::init, Spi::enable, Spi::disable                            *)

\* cr1.write(..) sets the named fields and leaves the others at reset (SPE
\* clear); cr2.modify(..) changes SSOE, FRXTH and DS
SpiInit(r) ==
    [r EXCEPT !.cpha = 0, !.cpol = 0, !.mstr = 1, !.br = 2, !.lsbfirst = 0,
              !.ssi = 1, !.ssm = 1, !.rxonly = 0, !.bidimode = 0, !.spe = 0,
              !.ssoe = 0, !.frxth = 1, !.ds = 7, !.inited = TRUE]

SpiEnable(r) == [r EXCEPT !.spe = 1]

SpiDisable(r) == [r EXCEPT !.spe = 0]

-----------------------------------------------------------------------------
(* The device on the bus: a register file of 64 bytes addressed by the     *)
(* command byte.  The falling edge of chip-select starts a transaction     *)
(* (the next byte is the command byte); the rising edge ends it.           *)

Addrs == 0 .. 63

DeviceRegs(who, st) ==
    [a \in Addrs |->
        IF a = WHO_AM_I THEN who
        ELSE IF a = STATUS_REG THEN st
        ELSE IF a = OUT_TEMP THEN 250
        ELSE IF a = OUT_X_L THEN 255
        ELSE IF a = OUT_X_L + 1 THEN 255
        ELSE IF a = OUT_X_L + 2 THEN 52
        ELSE IF a = OUT_X_L + 3 THEN 18
        ELSE 0]

DeviceIdle(regs) == [regs |-> regs, mode |-> "idle", ms |-> FALSE, addr |-> 0]

\* chip-select goes from level `from' to level `to'
DeviceSelect(d, from, to) ==
    IF from = "high" /\ to = "low" THEN [d EXCEPT !.mode = "cmd"]
    ELSE IF to = "high" THEN [d EXCEPT !.mode = "idle"]
    ELSE d

DeviceNextAddr(d) == IF d.ms THEN (d.addr + 1) % 64 ELSE d.addr

\* the device after byte b has been clocked in while selected
DeviceShiftIn(d, b) ==
    IF d.mode = "cmd" THEN
        [d EXCEPT !.mode = IF b >= 128 THEN "read" ELSE "write",
                  !.ms = (b % 128) >= 64,
                  !.addr = b % 64]
    ELSE IF d.mode = "write" THEN
        [d EXCEPT !.regs[d.addr] = b, !.addr = DeviceNextAddr(d)]
    ELSE IF d.mode = "read" THEN
        [d EXCEPT !.addr = DeviceNextAddr(d)]
    ELSE d

\* the byte the device clocks out during that exchange
DeviceShiftOut(d) == IF d.mode = "read" THEN d.regs[d.addr] ELSE 0

-----------------------------------------------------------------------------
(* l3gd20.rs: pure parts                                                   *)

\* nb's block!: what the loop does with one attempt's outcome
BlockSurfacesWouldBlock(o) == IF o = "Ready" THEN "ok" ELSE "err"

BlockRetriesFault(o) == IF o = "Ready" THEN "ok" ELSE "retry"

Block(o) ==
    IF o = "WouldBlock" THEN "retry"
    ELSE IF o = "Ready" THEN "ok"
    ELSE "err"

CommandByteNoMs(dir, reg, len) == BitOr(dir, reg)

CommandByte(dir, reg, len) ==
    BitOr(IF len > 1 THEN BitOr(dir, MS) ELSE dir, reg)

Junk(n) == [i \in 1 .. n |-> JUNK_DATA]

\* the level enable() drives the chip-select pin to (br3: reset the pin)
Enable == "low"

DisableLeavesLow == "low"

\* the level disable() drives it to (bs3: set the pin)
Disable == "high"

NoTxn == [rw |-> "none", reg |-> 0, out |-> <<>>, k |-> 0, buf |-> <<>>]

\* write(reg, bytes): the bytes it will send, in order
WriteTxn(reg, bytes) ==
    [rw |-> "write", reg |-> reg,
     out |-> <<CommandByte(WRITE, reg, Len(bytes))>> \o bytes,
     k |-> 1, buf |-> <<>>]

\* read(reg, bytes) with a buffer of n slots
ReadTxn(reg, n) ==
    [rw |-> "read", reg |-> reg,
     out |-> <<CommandByte(READ, reg, n)>> \o Junk(n),
     k |-> 1, buf |-> <<>>]

\* where the transaction goes after a successful send of out[k]: to the
\* receive of the byte clocked in during that send
AfterSendPipelined(t) ==
    IF t.k < Len(t.out) THEN [pc |-> "send", k |-> t.k + 1] ELSE [pc |-> "recv", k |-> t.k]

AfterSend(t) == [pc |-> "recv", k |-> t.k]

\* what a successful receive does with the byte: write() drops it, read()
\* drops the one that came back for the command byte and stores the others
StoreAll(t, byte) == IF t.rw = "read" THEN Append(t.buf, byte) ELSE t.buf

Store(t, byte) == IF t.rw = "read" /\ t.k > 1 THEN Append(t.buf, byte) ELSE t.buf

CheckIdAlwaysTrue(b) == TRUE

CheckId(b) == b = SENSOR_ID

Temp(b) == IF b >= 128 THEN b - 256 ELSE b

DecodeStatusShifted(b) ==
    [sensor_overrun |-> BitAnd(b, 64) # 0,
     z_overrun      |-> BitAnd(b, 32) # 0,
     y_overrun      |-> BitAnd(b, 16) # 0,
     x_overrun      |-> BitAnd(b, 8) # 0,
     new_data       |-> BitAnd(b, 4) # 0,
     z_new          |-> BitAnd(b, 2) # 0,
     y_new          |-> BitAnd(b, 1) # 0,
     x_new          |-> BitAnd(b, 128) # 0]

DecodeStatus(b) ==
    [sensor_overrun |-> BitAnd(b, 128) # 0,
     z_overrun      |-> BitAnd(b, 64) # 0,
     y_overrun      |-> BitAnd(b, 32) # 0,
     x_overrun      |-> BitAnd(b, 16) # 0,
     new_data       |-> BitAnd(b, 8) # 0,
     z_new          |-> BitAnd(b, 4) # 0,
     y_new          |-> BitAnd(b, 2) # 0,
     x_new          |-> BitAnd(b, 1) # 0]

\* `as i16' of a u16
AsI16(w) == IF w >= 32768 THEN w - 65536 ELSE w

\* the shift done in u8, before the widening
WordShiftInByte(l, h) == (((h * 256) % 256) + l) % 65536

\* ((h as u16) << 8) + (l as u16), in u16
Word(l, h) == (((h * 256) % 65536) + l) % 65536

Measure(data) ==
    [x |-> AsI16(Word(data[1], data[2])),
     y |-> AsI16(Word(data[3], data[4])),
     z |-> AsI16(Word(data[5], data[6]))]

ConfigReg1NoEnable(odr, cut_off) == BitOr(odr, cut_off)

ConfigReg1(odr, cut_off) == BitOr(BitOr(odr, cut_off), ENABLE_SENSOR)

ConfigReg4(scale) == scale

\* the steps of init after the identity check, in the order init runs them
InitStepsReg1First(c) ==
    <<"reg1">> \o (IF c.interrupt THEN <<"reg3">> ELSE <<>>) \o <<"reg4">>

InitSteps(c) ==
    (IF c.interrupt THEN <<"reg3">> ELSE <<>>) \o <<"reg4", "reg1">>

StepReg(s) ==
    IF s = "reg1" THEN CTRL_REG1 ELSE IF s = "reg3" THEN CTRL_REG3 ELSE CTRL_REG4

StepTxn(s, c) ==
    IF s = "reg1" THEN WriteTxn(CTRL_REG1, <<ConfigReg1(c.odr, c.cut_off)>>)
    ELSE IF s = "reg3" THEN WriteTxn(CTRL_REG3, <<ENABLE_DRDY>>)
    ELSE WriteTxn(CTRL_REG4, <<ConfigReg4(c.scale)>>)

\* the step that follows step s in init, "done" after the last
NextStep(s, c) ==
    LET steps == InitSteps(c)
        i == IF s = "id" THEN 0
             ELSE CHOOSE j \in 1 .. Len(steps) : steps[j] = s
    IN IF i < Len(steps) THEN steps[i + 1] ELSE "done"

-----------------------------------------------------------------------------
(* State                                                                   *)

NoRet == [kind |-> "none"]
NoCfg == [odr |-> 0, cut_off |-> 0, interrupt |-> FALSE, scale |-> 0]
NoPrev == [op |-> "none", reg |-> 0, data |-> <<>>, result |-> "none"]
NoSr == [ovr |-> FALSE, modf |-> FALSE, crcerr |-> FALSE, rxne |-> FALSE, txe |-> FALSE]

\* CR1 and CR2 of SPI1 out of reset
SpiReset ==
    [cpha |-> 0, cpol |-> 0, mstr |-> 0, br |-> 0, lsbfirst |-> 0, ssi |-> 0, ssm |-> 0,
     rxonly |-> 0, bidimode |-> 0, spe |-> 0, ssoe |-> 0, frxth |-> 0, ds |-> 0,
     inited |-> FALSE]

\* no application around the driver: nothing masks or raises EXTI1
NoApp == [at |-> 0, imr |-> FALSE, rtsr |-> FALSE, ctx |-> "main", h |-> "-",
          preempted |-> FALSE]

NoSaved == [pc |-> "none"]

\* what a floating MISO line may read as when no device is selected
FloatBytes == {0, 255}

\* what WHO_AM_I may answer: an L3GD20, or the L3GD20H that replaced it
IdBytes == {SENSOR_ID, 215}

\* the configurations the application of examples/gyroscope.rs style uses
AppConfigs == {DefaultConfig, [DefaultConfig EXCEPT !.interrupt = FALSE]}

InitAll(d, conf, cs0, n, rw, a) ==
    /\ cs = "high"
    /\ configured = conf
    /\ dev = d
    /\ tx = 0
    /\ rx = 0
    /\ pc = "idle"
    /\ op = "none"
    /\ step = "-"
    /\ cfg = NoCfg
    /\ txn = NoTxn
    /\ sent = <<>>
    /\ nrecv = 0
    /\ result = "none"
    /\ ret = NoRet
    /\ fault = "none"
    /\ faults = 0
    /\ calls = 0
    /\ budget = n
    /\ cfgs = cs0
    /\ rwArgs = rw
    /\ spun = FALSE
    /\ wlog = <<>>
    /\ idByte = -1
    /\ lastSr = NoSr
    /\ lastOut = "none"
    /\ lastKind = "none"
    /\ prev = NoPrev
    /\ recvd = <<>>
    /\ lastDr = "none"
    /\ spi = SpiReset
    /\ app = a
    /\ saved = NoSaved

InitDev(d, conf, cs0, n, rw) == InitAll(d, conf, cs0, n, rw, NoApp)

InitWith(who, st, conf, cs0, n, rw) ==
    InitDev(DeviceIdle(DeviceRegs(who, st)), conf, cs0, n, rw)

Init == \E who \in IdBytes : InitWith(who, 145, FALSE, AppConfigs, MaxCalls, {})

-----------------------------------------------------------------------------
(* Calls: each runs the operation up to its first block!                   *)

\* enable() and the first send of write()/read() pending
StartTxn(t, csBefore, d) ==
    /\ cs' = Enable
    /\ dev' = DeviceSelect(d, csBefore, Enable)
    /\ txn' = t
    /\ sent' = <<>>
    /\ nrecv' = 0
    /\ recvd' = <<>>
    /\ pc' = "send"

\* the entry of a driver operation, in whatever context calls it
BeginOp(name) ==
    /\ calls < budget
    /\ calls' = calls + 1
    /\ op' = name
    /\ result' = "none"
    /\ ret' = NoRet
    /\ fault' = "none"
    /\ spun' = FALSE
    /\ wlog' = <<>>
    /\ idByte' = -1
    /\ UNCHANGED <<tx, rx, faults, budget, cfgs, rwArgs, lastSr, lastOut, lastKind,
                   lastDr, spi>>

\* the caller is the ordinary context, which is not inside another driver
\* operation
FromMain ==
    /\ pc = "idle"
    /\ app.ctx = "main"
    /\ app' = [app EXCEPT !.preempted = FALSE]
    /\ UNCHANGED saved

StartOp(name) ==
    /\ FromMain
    /\ BeginOp(name)

\* init up to the first block! of its identity read: the pin becomes an
\* output and is set high, then read() selects the device
EnterInit(c) ==
    /\ BeginOp("init")
    /\ configured' = TRUE
    /\ cfg' = c
    /\ step' = "id"
    /\ prev' = NoPrev
    /\ StartTxn(ReadTxn(WHO_AM_I, 1), Disable, DeviceSelect(dev, cs, Disable))

CallInit(c) ==
    /\ FromMain
    /\ EnterInit(c)

\* check_id, temp, status, measure up to the first block! of their read
EnterRegRead(name, reg, n) ==
    /\ configured
    /\ BeginOp(name)
    /\ step' = "-"
    /\ cfg' = NoCfg
    /\ prev' = NoPrev
    /\ StartTxn(ReadTxn(reg, n), cs, dev)
    /\ UNCHANGED configured

CallRegRead(name, reg, n) ==
    /\ FromMain
    /\ EnterRegRead(name, reg, n)

CallCheckId == CallRegRead("check_id", WHO_AM_I, 1)

CallTemp == CallRegRead("temp", OUT_TEMP, 1)

CallStatus == CallRegRead("status", STATUS_REG, 1)

CallMeasure == CallRegRead("measure", OUT_X_L, 6)

-----------------------------------------------------------------------------
(* The spin loops of write() and read()                                    *)

SendAttempt ==
    /\ pc = "send"
    /\ \E sr \in StatusRegs :
        LET o == SpiSend(sr)
            b == Block(o)
            byte == txn.out[txn.k]
        IN  /\ (o \in Faults) => faults < MaxFaults
            /\ faults' = IF o \in Faults THEN faults + 1 ELSE faults
            /\ fault' = IF o \in Faults THEN o ELSE fault
            /\ spun' = (spun \/ o = "WouldBlock")
            /\ IF b = "ok" THEN
                    /\ tx' = byte
                    /\ sent' = Append(sent, byte)
                    /\ IF cs = "low"
                         THEN rx' = DeviceShiftOut(dev) /\ dev' = DeviceShiftIn(dev, byte)
                         ELSE rx' \in FloatBytes /\ dev' = dev
                    /\ pc' = AfterSend(txn).pc
                    /\ txn' = [txn EXCEPT !.k = AfterSend(txn).k]
                    /\ UNCHANGED result
               ELSE IF b = "err" THEN
                    /\ pc' = "idle"
                    /\ result' = o
                    /\ UNCHANGED <<tx, sent, rx, dev, txn>>
               ELSE UNCHANGED <<pc, result, tx, sent, rx, dev, txn>>
    /\ UNCHANGED <<cs, configured, op, step, cfg, nrecv, ret, wlog, idByte,
                   calls, budget, cfgs, rwArgs, lastSr, lastOut, lastKind, prev,
                   recvd, lastDr, spi, app, saved>>

\* The value the operation returns inside Ok once its read has filled buf
RetOf(name, buf) ==
    IF name = "check_id" THEN [kind |-> "bool", v |-> CheckId(buf[1])]
    ELSE IF name = "temp" THEN [kind |-> "i8", v |-> Temp(buf[1])]
    ELSE IF name = "status" THEN [kind |-> "status", v |-> DecodeStatus(buf[1])]
    ELSE IF name = "measure" THEN [kind |-> "raw", v |-> Measure(buf)]
    ELSE IF name = "read" THEN [kind |-> "bytes", v |-> buf]
    ELSE [kind |-> "unit"]

\* What follows the last receive of a transaction: disable(), Ok(()) to the
\* caller of write()/read(), and the caller's code up to its next block! or return.
AfterTxn(buf) ==
    LET d1 == DeviceSelect(dev, cs, Disable)
        t1 == [txn EXCEPT !.buf = buf]
        ended == IF txn.rw = "write"
                 THEN Append(wlog, [ev |-> "end", reg |-> txn.reg])
                 ELSE wlog
        base == [pc |-> "idle", cs |-> Disable, dev |-> d1, txn |-> t1, sent |-> sent,
                 nrecv |-> nrecv + 1, recvd |-> Append(recvd, rx), result |-> "Ok", ret |-> RetOf(op, buf),
                 step |-> step, wlog |-> wlog, idByte |-> idByte]
    IN  IF op # "init" THEN base
        ELSE IF step = "id" /\ ~CheckId(buf[1]) THEN
            [base EXCEPT !.pc = "halt", !.result = "Panic", !.ret = NoRet,
                         !.idByte = buf[1]]
        ELSE
            LET ns == NextStep(step, cfg)
                id1 == IF step = "id" THEN buf[1] ELSE idByte
            IN  IF ns = "done" THEN
                    [base EXCEPT !.step = "done", !.wlog = ended, !.idByte = id1]
                ELSE
                    [base EXCEPT !.pc = "send", !.cs = Enable,
                                 !.dev = DeviceSelect(d1, Disable, Enable),
                                 !.txn = StepTxn(ns, cfg), !.sent = <<>>, !.nrecv = 0,
                                 !.recvd = <<>>,
                                 !.result = "none", !.ret = NoRet, !.step = ns,
                                 !.wlog = Append(ended, [ev |-> "begin", reg |-> StepReg(ns)]),
                                 !.idByte = id1]

RecvAttempt ==
    /\ pc = "recv"
    /\ \E sr \in StatusRegs :
        LET o == SpiRead(sr)
            b == Block(o)
            buf1 == Store(txn, rx)
            r == AfterTxn(buf1)
        IN  /\ (o \in Faults) => faults < MaxFaults
            /\ faults' = IF o \in Faults THEN faults + 1 ELSE faults
            /\ fault' = IF o \in Faults THEN o ELSE fault
            /\ spun' = (spun \/ o = "WouldBlock")
            /\ IF b = "ok" /\ txn.k < Len(txn.out) THEN
                    /\ pc' = "send"
                    /\ txn' = [txn EXCEPT !.k = @ + 1, !.buf = buf1]
                    /\ nrecv' = nrecv + 1
                    /\ recvd' = Append(recvd, rx)
                    /\ UNCHANGED <<cs, dev, sent, result, ret, step, wlog, idByte>>
               ELSE IF b = "ok" THEN
                    /\ pc' = r.pc
                    /\ cs' = r.cs
                    /\ dev' = r.dev
                    /\ txn' = r.txn
                    /\ sent' = r.sent
                    /\ nrecv' = r.nrecv
                    /\ recvd' = r.recvd
                    /\ result' = r.result
                    /\ ret' = r.ret
                    /\ step' = r.step
                    /\ wlog' = r.wlog
                    /\ idByte' = r.idByte
               ELSE IF b = "err" THEN
                    /\ pc' = "idle"
                    /\ result' = o
                    /\ UNCHANGED <<cs, dev, txn, sent, nrecv, recvd, ret, step, wlog, idByte>>
               ELSE UNCHANGED <<pc, cs, dev, txn, sent, nrecv, recvd, result, ret, step, wlog,
                                idByte>>
    /\ UNCHANGED <<configured, op, cfg, tx, rx, calls, budget, cfgs, rwArgs, lastSr, lastOut,
                   lastKind, prev, lastDr, spi, app, saved>>

-----------------------------------------------------------------------------
(* The driver as an application uses it                                    *)

Next ==
    \/ \E c \in cfgs : CallInit(c)
    \/ CallCheckId
    \/ CallTemp
    \/ CallStatus
    \/ CallMeasure
    \/ SendAttempt
    \/ RecvAttempt

Spec == Init /\ [][Next]_vars

(* init alone, for each of the 4 x 4 x 2 x 3 configurations                *)

InitInit == \E who \in IdBytes, c \in Configs : InitWith(who, 145, FALSE, {c}, MaxCalls, {})

NextInit ==
    \/ \E c \in cfgs : CallInit(c)
    \/ SendAttempt
    \/ RecvAttempt

SpecInit == InitInit /\ [][NextInit]_vars

-----------------------------------------------------------------------------
(* write() and read() called directly, as a test of the register protocol  *)
(* calls them: for each Register and each payload of 1 .. MaxLen bytes,    *)
(* writes of the payload and reads of as many bytes, in any order          *)

PayloadBytes == {17, 34}

Payloads == UNION {[1 .. n -> PayloadBytes] : n \in 1 .. MaxLen}

\* what the operation that has just finished did
Summary ==
    [op |-> op, reg |-> txn.reg,
     data |-> IF txn.rw = "write" THEN Tail(txn.out) ELSE txn.buf,
     result |-> result]

CallWrite(reg, bytes) ==
    /\ configured
    /\ StartOp("write")
    /\ step' = "-"
    /\ cfg' = NoCfg
    /\ prev' = Summary
    /\ StartTxn(WriteTxn(reg, bytes), cs, dev)
    /\ UNCHANGED configured

CallRead(reg, n) ==
    /\ configured
    /\ StartOp("read")
    /\ step' = "-"
    /\ cfg' = NoCfg
    /\ prev' = Summary
    /\ StartTxn(ReadTxn(reg, n), cs, dev)
    /\ UNCHANGED configured

InitRW ==
    \E reg \in Registers, bytes \in Payloads :
        InitWith(SENSOR_ID, 145, TRUE, AppConfigs, MaxCalls, {[reg |-> reg, bytes |-> bytes]})

NextRW ==
    \/ \E a \in rwArgs : CallWrite(a.reg, a.bytes)
    \/ \E a \in rwArgs : CallRead(a.reg, Len(a.bytes))
    \/ SendAttempt
    \/ RecvAttempt

SpecRW == InitRW /\ [][NextRW]_vars

-----------------------------------------------------------------------------
(* status() for every value of STATUS_REG                                  *)

InitStatus == \E st \in 0 .. 255 : InitWith(SENSOR_ID, st, TRUE, AppConfigs, MaxCalls, {})

NextStatus ==
    \/ CallStatus
    \/ SendAttempt
    \/ RecvAttempt

SpecStatus == InitStatus /\ [][NextStatus]_vars

-----------------------------------------------------------------------------
(* Spi::send and Spi::read called once, for every status register value    *)

SendBytes == {JUNK_DATA, 167}

SendWritesDrFirst(o) == TRUE

\* send writes the data register only in its last branch, once the fault
\* flags are clear and TXE is set
SendTouchesDr(o) == o = "Ready"

\* read reads the data register only in its last branch
ReadTouchesDr(o) == o = "Ready"

SpiSendCall(byte) ==
    /\ pc = "idle"
    /\ \E sr \in StatusRegs :
        /\ lastSr' = sr
        /\ lastOut' = SpiSend(sr)
        /\ lastKind' = "send"
        /\ ret' = IF SpiSend(sr) = "Ready" THEN [kind |-> "unit"] ELSE NoRet
        /\ lastDr' = IF SendTouchesDr(SpiSend(sr)) THEN "write" ELSE "none"
        /\ IF SendTouchesDr(SpiSend(sr)) THEN
                /\ tx' = byte
                /\ IF cs = "low"
                     THEN rx' = DeviceShiftOut(dev) /\ dev' = DeviceShiftIn(dev, byte)
                     ELSE rx' \in FloatBytes /\ dev' = dev
           ELSE UNCHANGED <<tx, rx, dev>>
    /\ UNCHANGED <<cs, configured, pc, op, step, cfg, txn, sent, nrecv, result, fault,
                   faults, calls, budget, cfgs, rwArgs, spun, wlog, idByte, prev,
                   recvd, spi, app, saved>>

SpiReadCall ==
    /\ pc = "idle"
    /\ \E sr \in StatusRegs :
        /\ lastSr' = sr
        /\ lastOut' = SpiRead(sr)
        /\ lastKind' = "read"
        /\ ret' = IF SpiRead(sr) = "Ready" THEN [kind |-> "u8", v |-> rx] ELSE NoRet
        /\ lastDr' = IF ReadTouchesDr(SpiRead(sr)) THEN "read" ELSE "none"
    /\ UNCHANGED <<cs, configured, dev, tx, rx, pc, op, step, cfg, txn, sent, nrecv,
                   result, fault, faults, calls, budget, cfgs, rwArgs, spun, wlog, idByte, prev,
                   recvd, spi, app, saved>>

\* Spi::init, Spi::enable or Spi::disable called
SpiControlCall(f) ==
    /\ pc = "idle"
    /\ spi' = IF f = "init" THEN SpiInit(spi)
              ELSE IF f = "enable" THEN SpiEnable(spi)
              ELSE SpiDisable(spi)
    /\ UNCHANGED <<cs, configured, dev, tx, rx, pc, op, step, cfg, txn, sent, nrecv,
                   result, ret, fault, faults, calls, budget, cfgs, rwArgs, spun, wlog,
                   idByte, lastSr, lastOut, lastKind, prev, recvd, lastDr, app, saved>>

\* the user of the bus drives the device's chip-select pin, as enable() and
\* disable() of the driver do
ChipSelect(level) ==
    /\ pc = "idle"
    /\ cs # level
    /\ cs' = level
    /\ dev' = DeviceSelect(dev, cs, level)
    /\ UNCHANGED <<configured, tx, rx, pc, op, step, cfg, txn, sent, nrecv, result, ret,
                   fault, faults, calls, budget, cfgs, rwArgs, spun, wlog, idByte, lastSr,
                   lastOut, lastKind, prev, recvd, lastDr, spi, app, saved>>

InitSpi == InitWith(SENSOR_ID, 145, FALSE, AppConfigs, 0, {})

NextSpi ==
    \/ \E byte \in SendBytes : SpiSendCall(byte)
    \/ SpiReadCall
    \/ \E f \in {"init", "enable", "disable"} : SpiControlCall(f)
    \/ \E level \in {Enable, Disable} : ChipSelect(level)

SpecSpi == InitSpi /\ [][NextSpi]_vars

-----------------------------------------------------------------------------
(* Properties                                                              *)

BeginOf(r) == [ev |-> "begin", reg |-> r]
EndOf(r) == [ev |-> "end", reg |-> r]

\* C1: whenever no transaction is in progress (the operation has returned,
\* with Ok or with a bus fault), the chip-select line is deasserted (high).
C1_SelectReleasedOnReturn == pc = "idle" => cs = "high"

\* C2: in every init call the CTRL_REG1 write begins only after the CTRL_REG4
\* write and, when the configuration asks for it, the CTRL_REG3 write have
\* completed, and no CTRL_REG3 or CTRL_REG4 write begins after it.
C2_Reg1WrittenLast ==
    /\ \A i \in 1 .. Len(wlog) :
        wlog[i] = BeginOf(CTRL_REG1) =>
            /\ \E j \in 1 .. (i - 1) : wlog[j] = EndOf(CTRL_REG4)
            /\ cfg.interrupt => \E j \in 1 .. (i - 1) : wlog[j] = EndOf(CTRL_REG3)
            /\ \A j \in 1 .. (i - 1) :
                (wlog[j].ev = "begin") =>
                    \E k \in (j + 1) .. (i - 1) : wlog[k] = EndOf(wlog[j].reg)
            /\ \A j \in (i + 1) .. Len(wlog) : wlog[j] = EndOf(CTRL_REG1)
    /\ (op = "init" /\ pc \in {"send", "recv"} /\ txn.rw = "write") =>
            wlog[Len(wlog)] = BeginOf(txn.reg)

C2_Witness ==
    /\ op = "init" /\ pc = "idle" /\ result = "Ok" /\ cfg.interrupt
    /\ wlog = <<BeginOf(CTRL_REG3), EndOf(CTRL_REG3), BeginOf(CTRL_REG4),
                EndOf(CTRL_REG4), BeginOf(CTRL_REG1), EndOf(CTRL_REG1)>>

\* C3: when the identity read of an init call returned a byte other than
\* SENSOR_ID, that call has started no configuration write.
C3_NoWritesOnMismatch ==
    (op = "init" /\ idByte # -1 /\ idByte # SENSOR_ID) =>
        (wlog = <<>> /\ txn.rw # "write")

C3_Witness ==
    op = "init" /\ idByte = 215 /\ pc = "halt" /\ wlog = <<>> /\ nrecv = 2

\* C4: when the identity read returned a byte other than SENSOR_ID, init has
\* returned to its caller with an IdentityMismatch error (it has not halted).
C4_MismatchReturnsError ==
    (op = "init" /\ idByte # -1 /\ idByte # SENSOR_ID) =>
        (pc = "idle" /\ result = "IdentityMismatch")

\* C6: an operation that has returned has returned Ok or a bus fault, never
\* the transient WouldBlock, whatever the status register showed.
C6_NoWouldBlockSurfaces ==
    /\ result # "WouldBlock"
    /\ (pc = "idle" /\ op # "none") => result \in ({"Ok"} \cup Faults)

C6_Witness ==
    pc = "idle" /\ op = "measure" /\ result = "Ok" /\ spun /\ nrecv = 7

\* C7: once an attempt of an operation has produced a bus fault, the
\* operation has returned that same fault and makes no further attempt.
C7_FaultPropagates ==
    fault # "none" => (pc = "idle" /\ result = fault)

C7_Witness ==
    /\ op = "init" /\ step = "reg4" /\ fault = "ModeFault"
    /\ pc = "idle" /\ result = "ModeFault" /\ Len(sent) = 1

\* C8: the first byte sent in a transaction is the command byte: bit 7 set
\* iff it is a read, bit 6 set iff more than one payload byte follows, bits
\* 5..0 the register address, which fits in 6 bits for every Register.
C8_CommandByte ==
    /\ \A r \in Registers : r < 64
    /\ sent # <<>> =>
        LET c == sent[1]
            n == Len(txn.out) - 1
        IN  /\ (c >= 128) <=> (txn.rw = "read")
            /\ ((c % 128) >= 64) <=> (n > 1)
            /\ c % 64 = txn.reg
            /\ txn.reg \in Registers
            /\ (txn.rw = "read" /\ txn.reg = 39 /\ n = 1) => c = 167
            /\ (txn.rw = "read" /\ txn.reg = 40 /\ n = 6) => c = 232

C8_Witness ==
    op = "measure" /\ pc = "idle" /\ result = "Ok" /\ sent[1] = 232 /\ Len(sent) = 7


\* C5: one attempt of Spi::send or Spi::read reports by the fixed priority
\* overrun > mode fault > CRC error > ready > not ready: Ready only with all
\* three fault flags clear, whatever TXE and RXNE show.
C5_FaultPriority ==
    lastKind # "none" =>
        LET ready == IF lastKind = "send" THEN lastSr.txe ELSE lastSr.rxne
            clean == ~lastSr.ovr /\ ~lastSr.modf /\ ~lastSr.crcerr
        IN  /\ lastOut = "Ready" => (clean /\ ready)
            /\ lastSr.ovr => lastOut = "Overrun"
            /\ (~lastSr.ovr /\ lastSr.modf) => lastOut = "ModeFault"
            /\ (~lastSr.ovr /\ ~lastSr.modf /\ lastSr.crcerr) => lastOut = "Crc"
            /\ (clean /\ ready) => lastOut = "Ready"
            /\ (clean /\ ~ready) => lastOut = "WouldBlock"

C5_Witness ==
    /\ lastKind = "send" /\ lastSr.txe /\ lastSr.ovr /\ lastSr.crcerr
    /\ lastOut = "Overrun"

\* C9: a fault-free write of a payload followed by a fault-free read of the
\* same length from the same register returns the written bytes in order.
C9_RoundTrip ==
    ( /\ op = "read" /\ pc = "idle" /\ result = "Ok"
      /\ prev.op = "write" /\ prev.result = "Ok"
      /\ prev.reg = txn.reg /\ Len(prev.data) = Len(txn.buf) )
        => txn.buf = prev.data

\* C10: status() returns eight flags that are bits 7..0 of the byte read from
\* STATUS_REG, each flag one bit: 0b10010001 gives sensor_overrun, x_overrun
\* and x_new.
C10_StatusBits ==
    (op = "status" /\ pc = "idle" /\ result = "Ok") =>
        LET b == txn.buf[1]
            f == ret.v
        IN  /\ b \in 0 .. 255
            /\ ret.kind = "status"
            /\ f.sensor_overrun = (b >= 128)
            /\ f.z_overrun = ((b % 128) >= 64)
            /\ f.y_overrun = ((b % 64) >= 32)
            /\ f.x_overrun = ((b % 32) >= 16)
            /\ f.new_data = ((b % 16) >= 8)
            /\ f.z_new = ((b % 8) >= 4)
            /\ f.y_new = ((b % 4) >= 2)
            /\ f.x_new = ((b % 2) >= 1)
            /\ b = 145 => f = [sensor_overrun |-> TRUE, z_overrun |-> FALSE,
                               y_overrun |-> FALSE, x_overrun |-> TRUE,
                               new_data |-> FALSE, z_new |-> FALSE,
                               y_new |-> FALSE, x_new |-> TRUE]

C10_Witness ==
    /\ op = "status" /\ pc = "idle" /\ result = "Ok" /\ txn.buf = <<145>>
    /\ ret.v.sensor_overrun /\ ret.v.x_overrun /\ ret.v.x_new /\ ~ret.v.new_data

-----------------------------------------------------------------------------
(* measure() for output registers holding the extremes of each axis        *)

\* (low, high) bytes of one axis: 0, -1, 4660, -32768, 32767
AxisSamples == {<<0, 0>>, <<255, 255>>, <<52, 18>>, <<0, 128>>, <<255, 127>>}

MeasureRegs(x, y, z) ==
    LET data == x \o y \o z
    IN  [a \in Addrs |->
            IF a >= OUT_X_L /\ a < OUT_X_L + 6 THEN data[a - OUT_X_L + 1]
            ELSE DeviceRegs(SENSOR_ID, 145)[a]]

InitMeasure ==
    \E x \in AxisSamples, y \in AxisSamples, z \in AxisSamples :
        InitDev(DeviceIdle(MeasureRegs(x, y, z)), TRUE, AppConfigs, MaxCalls, {})

NextMeasure ==
    \/ CallMeasure
    \/ SendAttempt
    \/ RecvAttempt

SpecMeasure == InitMeasure /\ [][NextMeasure]_vars

\* C11: measure() returns, for axis k = 0, 1, 2, the 16-bit two's-complement
\* value of (byte[2k+1] << 8) | byte[2k] of the six bytes read, low byte
\* first; the 16-bit word never overflows; six zero bytes give (0, 0, 0) and
\* FF FF 00 00 00 00 gives x = -1, y = z = 0.
C11_RawCounts ==
    (op = "measure" /\ pc = "idle" /\ result = "Ok") =>
        LET b == txn.buf
            U(k) == b[2 * k + 2] * 256 + b[2 * k + 1]
            Raw(k) == IF U(k) >= 32768 THEN U(k) - 65536 ELSE U(k)
        IN  /\ Len(b) = 6
            /\ \A i \in 1 .. 6 : b[i] \in 0 .. 255
            /\ \A k \in 0 .. 2 : U(k) \in 0 .. 65535 /\ Raw(k) \in -32768 .. 32767
            /\ ret.kind = "raw"
            /\ ret.v = [x |-> Raw(0), y |-> Raw(1), z |-> Raw(2)]
            /\ b = <<0, 0, 0, 0, 0, 0>> => ret.v = [x |-> 0, y |-> 0, z |-> 0]
            /\ b = <<255, 255, 0, 0, 0, 0>> => ret.v = [x |-> -1, y |-> 0, z |-> 0]

C11_Witness ==
    /\ op = "measure" /\ pc = "idle" /\ result = "Ok"
    /\ txn.buf = <<255, 255, 0, 0, 0, 0>> /\ ret.v = [x |-> -1, y |-> 0, z |-> 0]

-----------------------------------------------------------------------------
(* The public API on a bus that does not hang: an attempt that is retried  *)
(* for ever eventually finds the ready flag or a fault flag set            *)

SendCompletes == SendAttempt /\ pc' # "send"

RecvCompletes == RecvAttempt /\ (pc' # "recv" \/ nrecv' # nrecv)

SpecLive == Init /\ [][Next]_vars /\ WF_vars(SendCompletes) /\ WF_vars(RecvCompletes)

\* C12: on a bus that does not hang, every operation that has been called
\* eventually returns to its caller, with Ok or with a bus fault.
C12_EveryCallReturns ==
    (pc \in {"send", "recv"}) ~> (pc = "idle" /\ result \in ({"Ok"} \cup Faults))

-----------------------------------------------------------------------------
(* examples/gyroscope.rs: init, idle and the EXTI1 task gyro_intr          *)

AppStepsGyroLast ==
    <<"spi_init", "spi_enable", "syscfgen", "exticr1", "imr1", "rtsr1", "gyro_init", "unwrap">>

\* the statements of init, in order
AppSteps ==
    <<"spi_init", "spi_enable", "gyro_init", "unwrap", "syscfgen", "exticr1", "imr1", "rtsr1">>

AppBoot == [at |-> 1, imr |-> FALSE, rtsr |-> FALSE, ctx |-> "main", h |-> "-",
            preempted |-> FALSE]

\* the locals of the driver call a context is in
Context ==
    [pc |-> pc, op |-> op, step |-> step, cfg |-> cfg, txn |-> txn, sent |-> sent,
     nrecv |-> nrecv, recvd |-> recvd, result |-> result, ret |-> ret, fault |-> fault,
     spun |-> spun, wlog |-> wlog, idByte |-> idByte, prev |-> prev]

\* one statement of init; gyro.init runs up to its first block!, and unwrap
\* takes what it returned
AppStep ==
    /\ app.ctx = "main"
    /\ pc = "idle"
    /\ app.at \in 1 .. Len(AppSteps)
    /\ LET s == AppSteps[app.at]
           nxt == [app EXCEPT !.at = @ + 1]
       IN  IF s = "gyro_init" THEN
                /\ EnterInit(DefaultConfig)
                /\ app' = nxt
                /\ UNCHANGED saved
           ELSE IF s = "unwrap" THEN
                /\ IF result = "Ok"
                     THEN pc' = pc /\ app' = nxt
                     ELSE pc' = "halt" /\ app' = app
                /\ UNCHANGED <<cs, configured, dev, tx, rx, op, step, cfg, txn, sent, nrecv,
                               result, ret, fault, faults, calls, budget, cfgs, rwArgs, spun,
                               wlog, idByte, lastSr, lastOut, lastKind, prev, recvd, lastDr,
                               spi, saved>>
           ELSE
                /\ spi' = IF s = "spi_init" THEN SpiInit(spi)
                          ELSE IF s = "spi_enable" THEN SpiEnable(spi)
                          ELSE spi
                /\ app' = [nxt EXCEPT !.imr = (@ \/ s = "imr1"), !.rtsr = (@ \/ s = "rtsr1")]
                /\ UNCHANGED <<cs, configured, dev, tx, rx, pc, op, step, cfg, txn, sent,
                               nrecv, result, ret, fault, faults, calls, budget, cfgs, rwArgs,
                               spun, wlog, idByte, lastSr, lastOut, lastKind, prev, recvd,
                               lastDr, saved>>

\* idle: loop { wfi }
Idle ==
    /\ app.ctx = "main"
    /\ pc = "idle"
    /\ app.at = Len(AppSteps) + 1
    /\ UNCHANGED vars

\* EXTI1 raised while unmasked with its rising trigger selected: gyro_intr
\* preempts whatever the ordinary context is doing and runs up to the first
\* block! of status()
Irq ==
    /\ app.imr
    /\ app.rtsr
    /\ app.ctx = "main"
    /\ pc # "halt"
    /\ saved' = Context
    /\ app' = [app EXCEPT !.ctx = "irq", !.h = "status"]
    /\ EnterRegRead("status", STATUS_REG, 1)

\* gyro_intr after status() or measure() returned: unwrap, then measure(),
\* then the return to the preempted context
HandlerStep ==
    /\ app.ctx = "irq"
    /\ pc = "idle"
    /\ IF result # "Ok" THEN
            /\ pc' = "halt"
            /\ UNCHANGED <<cs, configured, dev, tx, rx, op, step, cfg, txn, sent, nrecv,
                           result, ret, fault, faults, calls, budget, cfgs, rwArgs, spun,
                           wlog, idByte, lastSr, lastOut, lastKind, prev, recvd, lastDr,
                           spi, app, saved>>
       ELSE IF app.h = "status" THEN
            /\ app' = [app EXCEPT !.h = "measure"]
            /\ EnterRegRead("measure", OUT_X_L, 6)
            /\ UNCHANGED saved
       ELSE
            /\ pc' = saved.pc
            /\ op' = saved.op
            /\ step' = saved.step
            /\ cfg' = saved.cfg
            /\ txn' = saved.txn
            /\ sent' = saved.sent
            /\ nrecv' = saved.nrecv
            /\ recvd' = saved.recvd
            /\ result' = saved.result
            /\ ret' = saved.ret
            /\ fault' = saved.fault
            /\ spun' = saved.spun
            /\ wlog' = saved.wlog
            /\ idByte' = saved.idByte
            /\ prev' = saved.prev
            /\ app' = [app EXCEPT !.ctx = "main", !.h = "-",
                                  !.preempted = (saved.pc \in {"send", "recv"})]
            /\ saved' = NoSaved
            /\ UNCHANGED <<cs, configured, dev, tx, rx, faults, calls, budget, cfgs, rwArgs,
                           lastSr, lastOut, lastKind, lastDr, spi>>

InitApp ==
    \E who \in IdBytes :
        InitAll(DeviceIdle(DeviceRegs(who, 145)), FALSE, {DefaultConfig}, MaxCalls, {}, AppBoot)

NextApp ==
    \/ AppStep
    \/ Idle
    \/ Irq
    \/ HandlerStep
    \/ SendAttempt
    \/ RecvAttempt

SpecApp == InitApp /\ [][NextApp]_vars

\* C13: in the example application no transaction is ever started inside
\* another: the only transactions of the ordinary context are those of
\* gyro.init, all finished before EXTI1 is unmasked; idle has none; the
\* handler's status() and measure() run one after the other, status() first;
\* and every handler transaction starts with chip-select deasserted.
C13_NoReentry ==
    /\ []( /\ (app.ctx = "main" /\ pc \in {"send", "recv"}) => (op = "init" /\ ~app.imr)
           /\ (app.ctx = "main" /\ app.at > Len(AppSteps)) => pc \in {"idle", "halt"}
           /\ app.imr =>
                LET m == IF app.ctx = "main" THEN Context ELSE saved
                IN  m.op = "init" /\ m.pc = "idle" /\ m.result = "Ok" /\ m.step = "done"
           /\ app.ctx = "irq" =>
                /\ saved.pc = "idle"
                /\ op = app.h
                /\ op \in {"status", "measure"} )
    /\ [][ (calls' # calls /\ app'.ctx = "irq") =>
                /\ cs = "high"
                /\ pc = "idle"
                /\ op' = "measure" => (op = "status" /\ result = "Ok") ]_vars

C13_Witness ==
    /\ app.ctx = "irq" /\ app.imr /\ app.h = "measure"
    /\ op = "measure" /\ pc = "idle" /\ result = "Ok"
    /\ saved.pc = "idle" /\ saved.op = "init" /\ saved.result = "Ok"

-----------------------------------------------------------------------------
(* The driver used from both contexts: the ordinary context calls status() *)
(* and measure() while EXTI1 is unmasked and gyro_intr may preempt it      *)

AppShared == [AppBoot EXCEPT !.at = 0, !.imr = TRUE, !.rtsr = TRUE]

InitIrq ==
    InitAll(DeviceIdle(DeviceRegs(SENSOR_ID, 145)), TRUE, AppConfigs, MaxCalls, {}, AppShared)

NextIrq ==
    \/ CallStatus
    \/ CallMeasure
    \/ Irq
    \/ HandlerStep
    \/ SendAttempt
    \/ RecvAttempt

SpecIrq == InitIrq /\ [][NextIrq]_vars

-----------------------------------------------------------------------------
(* Properties of the register transactions                                 *)

\* the number of bytes the operation asks read() or write() to transfer
PayloadLen(name) == IF name = "measure" THEN 6 ELSE 1

\* C14: a fault-free read of N bytes sends the read command byte and then
\* exactly N filler bytes 0x00 (no further address); the byte received for
\* the command byte is dropped and slot i of the buffer holds the byte
\* received for the i-th filler.
C14_ReadFillers ==
    (op \in {"check_id", "temp", "status", "measure"} /\ pc = "idle" /\ result = "Ok") =>
        LET N == PayloadLen(op)
        IN  /\ Len(sent) = N + 1
            /\ sent[1] >= 128
            /\ sent[1] % 64 = txn.reg
            /\ \A i \in 2 .. N + 1 : sent[i] = 0
            /\ Len(recvd) = N + 1
            /\ Len(txn.buf) = N
            /\ \A i \in 1 .. N : txn.buf[i] = recvd[i + 1]

C14_Witness ==
    /\ op = "measure" /\ pc = "idle" /\ result = "Ok"
    /\ sent = <<232, 0, 0, 0, 0, 0, 0>>
    /\ recvd = <<0, 255, 255, 52, 18, 0, 0>>
    /\ txn.buf = <<255, 255, 52, 18, 0, 0>>

\* C15: inside a transaction sends and receives strictly alternate, starting
\* with a send: before a send every sent byte has been received, before a
\* receive exactly one has not; a fault-free transaction with N payload
\* bytes has performed N + 1 sends and N + 1 receives.
C15_Alternation ==
    /\ nrecv = Len(recvd)
    /\ pc = "send" => Len(sent) = nrecv
    /\ pc = "recv" => Len(sent) = nrecv + 1
    /\ Len(sent) - nrecv \in {0, 1}
    /\ (pc \in {"send", "recv"} /\ nrecv > 0) =>
            (Len(sent) > 0 /\ nrecv <= PayloadLen(op))
    /\ (op # "none" /\ pc = "idle" /\ result = "Ok") =>
            (Len(sent) = PayloadLen(op) + 1 /\ nrecv = PayloadLen(op) + 1)

C15_Witness ==
    /\ op = "init" /\ step = "reg4" /\ txn.rw = "write"
    /\ pc = "recv" /\ Len(sent) = 2 /\ nrecv = 1

\* the place of a step in init
StepOrd(s) ==
    IF s = "id" THEN 0 ELSE IF s = "reg3" THEN 1 ELSE IF s = "reg4" THEN 2 ELSE 3

\* C16: when an attempt of a step of init has produced a bus fault, init has
\* returned that fault and has begun no later step (no CTRL_REG1 write after
\* a faulted CTRL_REG3 or CTRL_REG4 write, no write at all after a faulted
\* identity read); init has returned Ok only after every step it issued
\* completed without fault.
C16_InitStopsAtFault ==
    /\ (op = "init" /\ fault # "none") =>
        /\ pc = "idle"
        /\ result = fault
        /\ step \in {"id", "reg3", "reg4", "reg1"}
        /\ \A i \in 1 .. Len(wlog) :
            \E s \in {"reg3", "reg4", "reg1"} :
                wlog[i].reg = StepReg(s) /\ StepOrd(s) <= StepOrd(step)
        /\ step = "id" => wlog = <<>>
        /\ step # "id" => wlog[Len(wlog)] = BeginOf(StepReg(step))
        /\ step \in {"reg3", "reg4"} => \A i \in 1 .. Len(wlog) : wlog[i].reg # CTRL_REG1
    /\ (op = "init" /\ pc = "idle" /\ result = "Ok") =>
        /\ fault = "none"
        /\ step = "done"
        /\ idByte = SENSOR_ID
        /\ Len(wlog) % 2 = 0
        /\ \A i \in 1 .. Len(wlog) :
            IF i % 2 = 1 THEN wlog[i].ev = "begin"
            ELSE wlog[i] = EndOf(wlog[i - 1].reg)
        /\ wlog[Len(wlog)] = EndOf(CTRL_REG1)

C16_Witness ==
    /\ op = "init" /\ cfg.interrupt /\ step = "reg3" /\ fault = "Crc"
    /\ pc = "idle" /\ result = "Crc" /\ wlog = <<BeginOf(CTRL_REG3)>> /\ nrecv = 1

-----------------------------------------------------------------------------
(* Properties of what init leaves in the device                            *)

\* C17 as claimed: every init call that returned Ok has completed a write of
\* CTRL_REG3, of CTRL_REG4 and of CTRL_REG1, and the three device registers
\* hold what its configuration asks for (interrupt-control: ENABLE_DRDY when
\* the interrupt is requested, nothing enabled when it is not).
C17_AllThreeWritten ==
    (op = "init" /\ pc = "idle" /\ result = "Ok") =>
        /\ \A r \in {CTRL_REG3, CTRL_REG4, CTRL_REG1} :
                \E i \in 1 .. Len(wlog) : wlog[i] = EndOf(r)
        /\ dev.regs[CTRL_REG3] = (IF cfg.interrupt THEN 8 ELSE 0)
        /\ dev.regs[CTRL_REG4] = cfg.scale
        /\ dev.regs[CTRL_REG1] = cfg.odr + cfg.cut_off + 15

\* C17 amended: every init call that returned Ok has completed the writes of
\* CTRL_REG4 and CTRL_REG1, in that order, preceded by the write of
\* CTRL_REG3 exactly when its configuration requests the interrupt; the
\* range and primary-control registers hold what the configuration asks
\* for, and the interrupt-control register holds ENABLE_DRDY when the
\* interrupt is requested (it is not written when it is not).
C17_WritesPerConfig ==
    (op = "init" /\ pc = "idle" /\ result = "Ok") =>
        /\ wlog = (IF cfg.interrupt THEN <<BeginOf(CTRL_REG3), EndOf(CTRL_REG3)>> ELSE <<>>)
                    \o <<BeginOf(CTRL_REG4), EndOf(CTRL_REG4),
                         BeginOf(CTRL_REG1), EndOf(CTRL_REG1)>>
        /\ cfg.interrupt => dev.regs[CTRL_REG3] = 8
        /\ dev.regs[CTRL_REG4] = cfg.scale
        /\ dev.regs[CTRL_REG1] = cfg.odr + cfg.cut_off + 15
        /\ dev.regs[CTRL_REG1] % 16 = 15

\* an init without the interrupt after an init with it: the interrupt-control
\* register still holds ENABLE_DRDY
C17_Witness ==
    /\ op = "init" /\ pc = "idle" /\ result = "Ok" /\ ~cfg.interrupt
    /\ wlog = <<BeginOf(CTRL_REG4), EndOf(CTRL_REG4), BeginOf(CTRL_REG1), EndOf(CTRL_REG1)>>
    /\ dev.regs[CTRL_REG3] = 8 /\ dev.regs[CTRL_REG4] = 48 /\ dev.regs[CTRL_REG1] = 175

-----------------------------------------------------------------------------
(* Properties of Spi                                                       *)

\* C18: one call of Spi::send or Spi::read takes one status register
\* snapshot and returns what that snapshot gives, WouldBlock included; it
\* accesses the data register exactly when it returns Ready (send writes
\* the byte, read reads the byte waiting there), and on a fault or
\* WouldBlock the data register, the device and the control registers are
\* as they were.
C18_OneShot ==
    /\ [](lastKind # "none" =>
            /\ lastOut \in Faults \cup {"Ready", "WouldBlock"}
            /\ lastOut = (IF lastKind = "send" THEN SpiSend(lastSr) ELSE SpiRead(lastSr))
            /\ (lastDr # "none") <=> (lastOut = "Ready")
            /\ lastOut = "Ready" =>
                    /\ lastDr = (IF lastKind = "send" THEN "write" ELSE "read")
                    /\ lastKind = "read" => ret = [kind |-> "u8", v |-> rx]
            /\ lastOut # "Ready" => ret = NoRet)
    /\ [][ (((\E byte \in SendBytes : SpiSendCall(byte)) \/ SpiReadCall)
                /\ lastOut' # "Ready") =>
                    (tx' = tx /\ rx' = rx /\ dev' = dev /\ cs' = cs /\ spi' = spi) ]_vars
    /\ [][ \A byte \in SendBytes :
                (SpiSendCall(byte) /\ lastOut' = "Ready") => tx' = byte ]_vars

C18_Witness ==
    /\ lastKind = "send" /\ lastOut = "WouldBlock" /\ lastDr = "none" /\ ~lastSr.txe
    /\ cs = "low" /\ dev.mode = "read" /\ tx = 167 /\ rx = 0

\* C20: once Spi::init has run, CR1 and CR2 select the wire format of the
\* device: MSB first, 8-bit frames, master, clock idle high (CPOL = 1),
\* capture on the second clock edge (CPHA = 1).
C20_WireFormat ==
    spi.inited =>
        /\ spi.lsbfirst = 0
        /\ spi.ds = 7
        /\ spi.mstr = 1
        /\ spi.cpol = 1
        /\ spi.cpha = 1

\* C19: nothing in the driver keeps gyro_intr from preempting a transaction
\* of the ordinary context; once the handler's own transactions have ended
\* with disable(), the preempted transaction goes on sending and receiving
\* with chip-select deasserted and the device deselected.
C19_PreemptedRunsDeselected ==
    /\ (app.ctx = "irq" /\ saved.pc \in {"send", "recv"} /\ pc = "idle" /\ result = "Ok")
            => cs = "high"
    /\ (app.ctx = "main" /\ app.preempted /\ pc \in {"send", "recv"})
            => (cs = "high" /\ dev.mode = "idle" /\ Len(txn.out) > nrecv)

C19_Witness ==
    /\ app.ctx = "main" /\ app.preempted /\ op = "measure" /\ pc = "recv"
    /\ cs = "high" /\ dev.mode = "idle" /\ Len(sent) = 7 /\ Len(recvd) = 6
    /\ \E i \in 1 .. 6 : recvd[i] = 255 /\ sent[i] = 0

====
